---- MODULE Spec2Model ----
(***************************************************************************)
(* A model of the CulliganApi session object                               *)
(* (src/src/culligan/uniapi_culliganiot.py): its credential fields, the     *)
(* sign-in / refresh / sign-out operations on both call surfaces, the      *)
(* expiry checks and the request gateway every authenticated call passes.  *)
(*                                                                         *)
(* The websession field (the aiohttp ClientSession handle that            *)
(* ensure_session creates and _clear_auth drops) holds no credential and   *)
(* decides nothing in these operations; it is not part of the state.       *)
(*                                                                         *)
(* Time is the integer `now` (seconds), the value datetime.now() returns.  *)
(* An absent value (Python None) is the empty tuple; a present timestamp   *)
(* or number is the one-element tuple <<n>>; a token is a tagged pair      *)
(* <<field, g>> where g identifies the server response that issued it.     *)
(***************************************************************************)
EXTENDS Integers, Sequences, FiniteSets, TLC

(* ------------------------------ bounds --------------------------------- *)

\* the clock runs from 0 to MaxNow, observed at 0 and from the length of
\* the expiring-soon window onwards
MaxNow == 600
\* distinct token-carrying server responses
MaxGen == 2
\* asynchronous sign-in / refresh calls that may be in flight together
MaxInflight == 1

(* --------------------------- program constants ------------------------- *)

\* timedelta(seconds=600) in token_expiring_soon
ExpiringSoonSeconds == 600

Instants == {t \in 0..MaxNow : t = 0 \/ t >= ExpiringSoonSeconds}

(* ------------------------------- values -------------------------------- *)

None == <<>>
Some(x) == <<x>>

Gens == 1..MaxGen

\* expiresIn values a login response may carry
ExpiresInValues == {599, 600, 900}
\* linkedAccounts.ayla.expires_in values a login response may carry
AylaExpiresInValues == {3600}

\* the statuses _set_credentials rejects.  A login response has one of
\* them, or 200, or a status that is none of these (500 stands for it).
ErrorStatuses == {401, 404, 422}

\* Shapes of the JSON body of a login response:
\*   "error"            {error: {message}}
\*   "data"             {data: {...}} with every key _set_credentials reads
\*   "data_no_linked"   {data: {...}} without linkedAccounts
\*   "data_no_expires"  {data: {...}} without expiresIn (and linkedAccounts)
\*   "no_data"          a body with neither "data" nor "error"
DataBodies == {"data", "data_no_linked", "data_no_expires"}

NoResp == [status |-> 0, body |-> "none", gen |-> 0, expiresIn |-> 0, aylaExpiresIn |-> 0]

\* The responses the login endpoint may give.  The rejected statuses carry
\* the {error: {message}} envelope that lines 108-112 read.  A body that
\* lacks a key is taken with status 200 only: _set_credentials raises before
\* it reads the status again at line 125.
Responses ==
    [status : ErrorStatuses, body : {"error"}, gen : {0}, expiresIn : {0}, aylaExpiresIn : {0}]
    \cup [status : {200, 500}, body : {"data"}, gen : Gens,
          expiresIn : ExpiresInValues, aylaExpiresIn : AylaExpiresInValues]
    \cup [status : {200}, body : {"data_no_linked"}, gen : Gens,
          expiresIn : ExpiresInValues, aylaExpiresIn : {0}]
    \cup [status : {200}, body : {"data_no_expires"}, gen : Gens,
          expiresIn : {0}, aylaExpiresIn : {0}]
    \cup [status : {200, 500}, body : {"no_data"}, gen : {0}, expiresIn : {0}, aylaExpiresIn : {0}]

\* the fields of a response body
userId(r)            == <<"userId", r.gen>>
accessToken(r)       == <<"accessToken", r.gen>>
refreshToken(r)      == <<"refreshToken", r.gen>>
ayla_access_token(r) == <<"ayla.access_token", r.gen>>
ayla_refresh_token(r) == <<"ayla.refresh_token", r.gen>>

VARIABLES
    api,        \* the CulliganApi object's fields
    now,        \* the clock
    inflight,   \* asynchronous sign-in / refresh calls awaiting their response
    last,       \* the operation that ran last and what it gave its caller
    frame,      \* the sign-in / refresh / sign-out running in a second thread
    origin,     \* the call that last wrote the token, the expiry and the flag
    culligan_iot_serials,   \* CulliganApi.culligan_iot_serials
    devices     \* the device objects constructed so far, oldest first

\* the second thread of ThreadSpec
threadvars  == <<frame, origin>>
\* the device side: the tracked serials and the device objects
devicevars  == <<culligan_iot_serials, devices>>

vars == <<api, now, inflight, last, frame, origin, culligan_iot_serials, devices>>

(* ----------------------------- construction ---------------------------- *)

\* CulliganApi.__init__
CulliganApi ==
    [ _culligan_username      |-> None,
      _culligan_access_token  |-> None,
      _culligan_refresh_token |-> None,
      _culligan_expiration    |-> None,
      _ayla_access_token      |-> None,
      _ayla_refresh_token     |-> None,
      _ayla_expiration        |-> None,
      _ayla_expiration_raw    |-> None,
      _is_authed              |-> FALSE ]

(* --------------------------- credential update ------------------------- *)

HasData(login_result)  == login_result.body \in DataBodies
HasError(login_result) == login_result.body = "error"

\* (variant: the refresh token stored as the access token)
set_primary_tokens_swapped(a, login_result) ==
    [a EXCEPT !._culligan_username      = userId(login_result),
              !._culligan_access_token  = refreshToken(login_result),
              !._culligan_refresh_token = accessToken(login_result)]

\* lines 116-118: the first three assignments of _set_credentials
set_primary_tokens(a, login_result) ==
    [a EXCEPT !._culligan_username      = userId(login_result),
              !._culligan_access_token  = accessToken(login_result),
              !._culligan_refresh_token = refreshToken(login_result)]

\* line 119
set_primary_expiration(a, login_result, t) ==
    [a EXCEPT !._culligan_expiration = Some(t + login_result.expiresIn)]

\* lines 120-123
set_linked_account(a, login_result, t) ==
    [a EXCEPT !._ayla_access_token   = ayla_access_token(login_result),
              !._ayla_refresh_token  = ayla_refresh_token(login_result),
              !._ayla_expiration     = Some(t + login_result.aylaExpiresIn),
              !._ayla_expiration_raw = Some(login_result.aylaExpiresIn)]

\* (variant: any status that is not rejected authenticates)
set_is_authed_any_status(a, status_code) ==
    [a EXCEPT !._is_authed = TRUE]

\* lines 125-128
set_is_authed(a, status_code) ==
    [a EXCEPT !._is_authed = (status_code = 200)]

\* lines 113-128 of _set_credentials, reached when the status is none of
\* 404, 401, 422.  A subscript of a missing key raises KeyError at the
\* assignment that reads it, after the assignments before it have taken
\* effect; the dict + str of line 114 raises TypeError.
set_credentials_from_data(a, status_code, login_result, t) ==
    IF ~HasData(login_result)
    THEN [api |-> a, result |-> "TypeError"]
    ELSE LET a1 == set_primary_tokens(a, login_result)
             a2 == set_primary_expiration(a1, login_result, t)
             a3 == set_linked_account(a2, login_result, t)
         IN  IF login_result.body = "data_no_expires"
             THEN [api |-> a1, result |-> "KeyError"]
             ELSE IF login_result.body = "data_no_linked"
             THEN [api |-> a2, result |-> "KeyError"]
             ELSE [api |-> set_is_authed(a3, status_code), result |-> "ok"]

\* lines 107-112 of _set_credentials: the raise for a rejected status
raise_for_rejected(a, login_result) ==
    [api |-> a,
     result |-> IF HasError(login_result) THEN "CulliganAuthError" ELSE "KeyError"]

\* (variant: a rejected status also clears the stored credentials)
_set_credentials_clears_on_reject(a, status_code, login_result, t) ==
    IF status_code \in ErrorStatuses
    THEN [api |-> [a EXCEPT !._is_authed              = FALSE,
                            !._culligan_access_token  = None,
                            !._culligan_refresh_token = None,
                            !._culligan_expiration    = None],
          result |-> raise_for_rejected(a, login_result).result]
    ELSE set_credentials_from_data(a, status_code, login_result, t)

\* (variant: a rejected status also resets _is_authed)
_set_credentials_unauths_on_reject(a, status_code, login_result, t) ==
    IF status_code \in ErrorStatuses
    THEN [api |-> [a EXCEPT !._is_authed = FALSE],
          result |-> raise_for_rejected(a, login_result).result]
    ELSE set_credentials_from_data(a, status_code, login_result, t)

\* _set_credentials(status_code, login_result) run at clock value t: the
\* object afterwards and how the call ended ("ok" or the exception raised)
_set_credentials(a, status_code, login_result, t) ==
    IF status_code \in ErrorStatuses
    THEN raise_for_rejected(a, login_result)
    ELSE set_credentials_from_data(a, status_code, login_result, t)

\* (variant: _is_authed left as it was)
_clear_auth_keeps_flag(a) ==
    [a EXCEPT !._culligan_access_token  = None,
              !._culligan_refresh_token = None,
              !._culligan_expiration    = None,
              !._ayla_access_token      = None,
              !._ayla_refresh_token     = None,
              !._ayla_expiration        = None]

\* _clear_auth
_clear_auth(a) ==
    [a EXCEPT !._is_authed              = FALSE,
              !._culligan_access_token  = None,
              !._culligan_refresh_token = None,
              !._culligan_expiration    = None,
              !._ayla_access_token      = None,
              !._ayla_refresh_token     = None,
              !._ayla_expiration        = None]

(* ------------------------------ expiry checks -------------------------- *)

\* auth_expiration raises CulliganNotAuthedError("Invalid state...")
auth_expiration_raises(a) ==
    a._is_authed /\ a._culligan_expiration = None

\* auth_expiration, where it returns
auth_expiration(a) ==
    IF ~a._is_authed THEN None ELSE a._culligan_expiration

\* (variant: the comparison turned around)
token_expired_reversed(a, t) ==
    IF auth_expiration(a) = None THEN TRUE
    ELSE t < auth_expiration(a)[1]

\* (variant: expired from the instant of expiry)
token_expired_inclusive(a, t) ==
    IF auth_expiration(a) = None THEN TRUE
    ELSE t >= auth_expiration(a)[1]

\* token_expired, read at clock value t
token_expired(a, t) ==
    IF auth_expiration(a) = None THEN TRUE
    ELSE t > auth_expiration(a)[1]

\* (variant: expiring soon from exactly the window's length before expiry)
token_expiring_soon_inclusive(a, t) ==
    IF auth_expiration(a) = None THEN TRUE
    ELSE t >= auth_expiration(a)[1] - ExpiringSoonSeconds

\* token_expiring_soon, read at clock value t
token_expiring_soon(a, t) ==
    IF auth_expiration(a) = None THEN TRUE
    ELSE t > auth_expiration(a)[1] - ExpiringSoonSeconds

\* check_auth(raise_expiring_soon) at clock value t: the object afterwards
\* and how the call ended.  The condition of line 218 is evaluated left to
\* right, so token_expired is read only with a token and _is_authed set.
check_auth(a, raise_expiring_soon, t) ==
    IF a._culligan_access_token = None \/ ~a._is_authed
    THEN [api |-> [a EXCEPT !._is_authed = FALSE], result |-> "CulliganNotAuthedError"]
    ELSE IF auth_expiration_raises(a)
    THEN [api |-> a, result |-> "CulliganNotAuthedError"]
    ELSE IF token_expired(a, t)
    THEN [api |-> [a EXCEPT !._is_authed = FALSE], result |-> "CulliganNotAuthedError"]
    ELSE IF raise_expiring_soon /\ token_expiring_soon(a, t)
    THEN [api |-> a, result |-> "CulliganAuthExpiringError"]
    ELSE [api |-> a, result |-> "ok"]

\* the dict {"Authorization": f"Bearer {token}"} as its sequence of entries
BearerHeader(token) == << <<"Authorization", <<"Bearer", token>>>> >>

\* (variant: check_auth(raise_expiring_soon=False))
auth_header_hard_fail_only(a, t) ==
    LET c == check_auth(a, FALSE, t)
    IN  [api |-> c.api, result |-> c.result,
         value |-> IF c.result = "ok" THEN BearerHeader(a._culligan_access_token) ELSE None]

\* auth_header: check_auth() with its default argument, then the header
auth_header(a, t) ==
    LET c == check_auth(a, TRUE, t)
    IN  [api |-> c.api, result |-> c.result,
         value |-> IF c.result = "ok" THEN BearerHeader(a._culligan_access_token) ELSE None]

\* _get_headers for a caller that passes no headers of its own (every
\* caller in the package): {} updated with auth_header
_get_headers(a, t) == auth_header(a, t)

\* the dict get_ayla_api hands to AylaApi._set_credentials
AuthFromCulligan(a) ==
    <<a._ayla_access_token, a._ayla_refresh_token, a._ayla_expiration_raw>>

(* ------------------------------- operations ---------------------------- *)

AsyncAuthCalls == {"async_sign_in", "async_refresh_auth"}

\* what an operation leaves in `last`:
\*   op      the operation          result  "ok", "pending" or the exception
\*   resp    the login response     flag    check_auth's raise_expiring_soon
\*   out     the value returned     sent    whether an HTTP request was issued
Outcome(op, result, resp, flag, out, sent) ==
    [op |-> op, result |-> result, resp |-> resp, flag |-> flag,
     out |-> out, sent |-> sent]

\* no call is running in the second thread
NoFrame == [op |-> "none", pc |-> "done", resp |-> NoResp, id |-> 0]

\* no call has written the token, the expiry or the flag yet
NoOrigin == [token |-> 0, expiry |-> 0, authed |-> 0]

Init ==
    /\ api = CulliganApi
    /\ now = 0
    /\ inflight = {}
    /\ last = Outcome("__init__", "ok", NoResp, FALSE, None, FALSE)
    /\ frame = NoFrame
    /\ origin = NoOrigin
    /\ culligan_iot_serials = <<>>
    /\ devices = <<>>

\* datetime.now() moves on
Tick ==
    /\ \E t \in Instants : t > now /\ now' = t
    /\ last' = Outcome("tick", "ok", NoResp, FALSE, None, FALSE)
    /\ UNCHANGED <<api, inflight>>

\* sign_in: POST /auth/login, then _set_credentials on the response
sign_in ==
    \E resp \in Responses :
        LET c == _set_credentials(api, resp.status, resp, now)
        IN  /\ api' = c.api
            /\ last' = Outcome("sign_in", c.result, resp, FALSE, None, TRUE)
            /\ UNCHANGED <<now, inflight>>

\* refresh_auth: PUT /auth/login, then _set_credentials on the response
refresh_auth ==
    \E resp \in Responses :
        LET c == _set_credentials(api, resp.status, resp, now)
        IN  /\ api' = c.api
            /\ last' = Outcome("refresh_auth", c.result, resp, FALSE, None, TRUE)
            /\ UNCHANGED <<now, inflight>>

\* async_sign_in / async_refresh_auth up to the await of the response:
\* the request is sent
async_auth_send(op) ==
    /\ op \notin inflight
    /\ Cardinality(inflight) < MaxInflight
    /\ inflight' = inflight \cup {op}
    /\ last' = Outcome(op, "pending", NoResp, FALSE, None, TRUE)
    /\ UNCHANGED <<api, now>>

\* async_sign_in / async_refresh_auth resumed with the response:
\* _set_credentials(resp.status, await resp.json())
async_auth_receive(op) ==
    /\ op \in inflight
    /\ \E resp \in Responses :
        LET c == _set_credentials(api, resp.status, resp, now)
        IN  /\ api' = c.api
            /\ last' = Outcome(op, c.result, resp, FALSE, None, FALSE)
    /\ inflight' = inflight \ {op}
    /\ UNCHANGED now

async_sign_in_send         == async_auth_send("async_sign_in")
async_sign_in_receive      == async_auth_receive("async_sign_in")
async_refresh_auth_send    == async_auth_send("async_refresh_auth")
async_refresh_auth_receive == async_auth_receive("async_refresh_auth")

\* sign_out: _clear_auth, the POST being commented out
sign_out ==
    /\ api' = _clear_auth(api)
    /\ last' = Outcome("sign_out", "ok", NoResp, FALSE, None, FALSE)
    /\ UNCHANGED <<now, inflight>>

\* async_sign_out: ensure_session only, the POST and _clear_auth being
\* commented out
async_sign_out ==
    /\ last' = Outcome("async_sign_out", "ok", NoResp, FALSE, None, FALSE)
    /\ UNCHANGED <<api, now, inflight>>

\* a caller's check_auth(raise_expiring_soon)
CheckAuth ==
    \E raise_expiring_soon \in BOOLEAN :
        LET c == check_auth(api, raise_expiring_soon, now)
        IN  /\ api' = c.api
            /\ last' = Outcome("check_auth", c.result, NoResp, raise_expiring_soon,
                               None, FALSE)
            /\ UNCHANGED <<now, inflight>>

\* a caller's read of the auth_header property
AuthHeader ==
    LET h == auth_header(api, now)
    IN  /\ api' = h.api
        /\ last' = Outcome("auth_header", h.result, NoResp, TRUE, h.value, FALSE)
        /\ UNCHANGED <<now, inflight>>

\* self_request: _get_headers, then requests.request with those headers.
\* get_user_profile, get_metadata_user, get_device_registry, get_device_data,
\* CulliganIoTDevice.update and the softener commands all start with it.
self_request ==
    LET h == _get_headers(api, now)
    IN  /\ api' = h.api
        /\ last' = Outcome("self_request", h.result, NoResp, TRUE, h.value, h.result = "ok")
        /\ UNCHANGED <<now, inflight>>

\* async_request: _get_headers, then session.request.
\* The async_ counterparts of the calls above all start with it.
async_request ==
    LET h == _get_headers(api, now)
    IN  /\ api' = h.api
        /\ last' = Outcome("async_request", h.result, NoResp, TRUE, h.value, h.result = "ok")
        /\ UNCHANGED <<now, inflight>>

\* get_ayla_api: the linked credentials handed to AylaApi
get_ayla_api ==
    /\ last' = Outcome("get_ayla_api", "ok", NoResp, FALSE, AuthFromCulligan(api), FALSE)
    /\ UNCHANGED <<api, now, inflight>>

Next ==
    \/ Tick                         /\ UNCHANGED <<threadvars, devicevars>>
    \/ sign_in                      /\ UNCHANGED <<threadvars, devicevars>>
    \/ refresh_auth                 /\ UNCHANGED <<threadvars, devicevars>>
    \/ async_sign_in_send           /\ UNCHANGED <<threadvars, devicevars>>
    \/ async_sign_in_receive        /\ UNCHANGED <<threadvars, devicevars>>
    \/ async_refresh_auth_send      /\ UNCHANGED <<threadvars, devicevars>>
    \/ async_refresh_auth_receive   /\ UNCHANGED <<threadvars, devicevars>>
    \/ sign_out                     /\ UNCHANGED <<threadvars, devicevars>>
    \/ async_sign_out               /\ UNCHANGED <<threadvars, devicevars>>
    \/ CheckAuth                    /\ UNCHANGED <<threadvars, devicevars>>
    \/ AuthHeader                   /\ UNCHANGED <<threadvars, devicevars>>
    \/ self_request                 /\ UNCHANGED <<threadvars, devicevars>>
    \/ async_request                /\ UNCHANGED <<threadvars, devicevars>>
    \/ get_ayla_api                 /\ UNCHANGED <<threadvars, devicevars>>

Spec == Init /\ [][Next]_vars

(* -------------------------------- properties --------------------------- *)

SignInOps  == {"sign_in", "async_sign_in"}
RefreshOps == {"refresh_auth", "async_refresh_auth"}
AuthOps    == SignInOps \cup RefreshOps
\* the operations that build the bearer header
HeaderOps  == {"auth_header", "self_request", "async_request"}
CheckOps   == {"check_auth"} \cup HeaderOps

\* the Credential Store: every credential field of the object
CredentialStore(a) ==
    <<a._culligan_username, a._culligan_access_token, a._culligan_refresh_token,
      a._culligan_expiration, a._ayla_access_token, a._ayla_refresh_token,
      a._ayla_expiration, a._ayla_expiration_raw, a._is_authed>>

\* a session with a token, the flag set and an expiry to compare with
HasSession(a) ==
    /\ a._is_authed
    /\ a._culligan_access_token # None
    /\ a._culligan_expiration # None

\* the last operation was a sign-in that got a valid response
ValidSignIn ==
    /\ last.op \in SignInOps
    /\ last.resp.status = 200
    /\ last.resp.body = "data"

\* the sign-in succeeded, check_auth() succeeds now and auth_header is the
\* single bearer entry with the response's accessToken
SignedInWithToken ==
    /\ last.result = "ok"
    /\ check_auth(api, TRUE, now).result = "ok"
    /\ auth_header(api, now).result = "ok"
    /\ auth_header(api, now).value = BearerHeader(accessToken(last.resp))
    /\ Len(auth_header(api, now).value) = 1

\* C1 as stated: after a valid sign-in response (status 200, complete data
\* envelope), whatever its expiresIn, check_auth() succeeds at once and
\* auth_header is the bearer header with exactly the response's accessToken.
C1_AnyExpiresIn == ValidSignIn => SignedInWithToken

\* C1 amended: the same for a valid sign-in response whose expiresIn is more
\* than 600 seconds; with less, check_auth() and auth_header raise
\* CulliganAuthExpiringError although the token is stored.
C1_ValidSignIn ==
    ValidSignIn =>
        /\ api._culligan_access_token = accessToken(last.resp)
        /\ api._is_authed
        /\ last.resp.expiresIn > 600 => SignedInWithToken
        /\ last.resp.expiresIn < 600 =>
              /\ check_auth(api, TRUE, now).result = "CulliganAuthExpiringError"
              /\ auth_header(api, now).result = "CulliganAuthExpiringError"

C1_Witness ==
    /\ ValidSignIn
    /\ last.resp.expiresIn = 900
    /\ last.resp.gen = 2
    /\ SignedInWithToken

C3_FailureUnauthenticates ==
    (last.op \in AuthOps /\ last.result \notin {"ok", "pending"}) =>
        check_auth(api, FALSE, now).result = "CulliganNotAuthedError"

\* C3 amended: a sign-in or refresh rejected with CulliganAuthError leaves the
\* authentication status as it was: check_auth gives after it what it gave
\* before it, so an authenticated session stays authenticated.
C3_RejectionKeepsStatus ==
    [][ (last'.op \in AuthOps /\ last'.result = "CulliganAuthError") =>
            \A raise_expiring_soon \in BOOLEAN :
                check_auth(api', raise_expiring_soon, now').result
                    = check_auth(api, raise_expiring_soon, now).result ]_vars

C3_Witness ==
    /\ last.op \in SignInOps
    /\ last.result = "CulliganAuthError"
    /\ check_auth(api, TRUE, now).result = "ok"

\* the session is authenticated, not expired, and expires within 600 seconds
ExpiringSoon(a, t) ==
    /\ HasSession(a)
    /\ t <= a._culligan_expiration[1]
    /\ a._culligan_expiration[1] - t < 600

\* C4 as stated: in the ExpiringSoon state auth_header and the requests
\* built on it succeed and give the bearer header.
C4_HeaderIgnoresExpiringSoon ==
    (last.op \in HeaderOps /\ ExpiringSoon(api, now)) =>
        /\ last.result = "ok"
        /\ last.out = BearerHeader(api._culligan_access_token)

\* C4 amended: auth_header applies check_auth with its default
\* raise_expiring_soon=True: in the ExpiringSoon state auth_header and the
\* requests built on it raise CulliganAuthExpiringError, give no header and
\* send nothing, the session staying authenticated; only
\* check_auth(raise_expiring_soon=False) succeeds in that state.
C4_HeaderRejectsExpiringSoon ==
    /\ (last.op \in HeaderOps /\ ExpiringSoon(api, now)) =>
          /\ last.result = "CulliganAuthExpiringError"
          /\ last.out = None
          /\ ~last.sent
    /\ (last.op = "check_auth" /\ ExpiringSoon(api, now)) =>
          last.result = (IF last.flag THEN "CulliganAuthExpiringError" ELSE "ok")

C4_Witness ==
    /\ last.op = "self_request"
    /\ ExpiringSoon(api, now)
    /\ last.result = "CulliganAuthExpiringError"

\* C5: after sign_out every Credential Store field is absent and
\* _is_authed is false, the raw-seconds linked expiry included, so the
\* linked credentials get_ayla_api exports hold nothing of the session
\* before; and sign_out sends no request.
C5_SignOutClearsAll ==
    last.op = "sign_out" =>
        /\ ~api._is_authed
        /\ api._culligan_access_token = None
        /\ api._culligan_refresh_token = None
        /\ api._culligan_expiration = None
        /\ api._ayla_access_token = None
        /\ api._ayla_refresh_token = None
        /\ api._ayla_expiration = None
        /\ api._ayla_expiration_raw = None
        /\ AuthFromCulligan(api) = <<None, None, None>>
        /\ ~last.sent

\* C6: async_sign_out leaves the Credential Store as sign_out leaves it,
\* cleared and unauthenticated, so check_auth raises CulliganNotAuthedError
\* after either.
C6_AsyncSignOutClears ==
    [][ last'.op = "async_sign_out" =>
            /\ CredentialStore(api') = CredentialStore(_clear_auth(api))
            /\ check_auth(api', FALSE, now').result = "CulliganNotAuthedError" ]_vars

\* C7: with a session (flag set, token present), check_auth(True) raises
\* CulliganAuthExpiringError exactly when the expiry is less than 600 seconds
\* ahead and not yet passed, and succeeds when it is more than 600 seconds
\* ahead; check_auth(False) succeeds in both cases.
C7_ExpiringSoonWindow ==
    [][ (last'.op = "check_auth" /\ HasSession(api)) =>
            LET remaining == api._culligan_expiration[1] - now
            IN  /\ last'.flag =>
                     /\ (last'.result = "CulliganAuthExpiringError")
                            <=> (remaining < 600 /\ remaining >= 0)
                     /\ remaining > 600 => last'.result = "ok"
                /\ (~last'.flag /\ remaining >= 0) => last'.result = "ok" ]_vars

C7_Witness ==
    /\ last.op = "check_auth"
    /\ last.flag
    /\ last.result = "CulliganAuthExpiringError"
    /\ HasSession(api)
    /\ api._culligan_expiration[1] = now + 599

\* no token, or the flag not set, or the expiry passed
NotAuthed(a, t) ==
    \/ a._culligan_access_token = None
    \/ ~a._is_authed
    \/ (a._culligan_expiration # None /\ t > a._culligan_expiration[1])

\* C8: check_auth raises CulliganNotAuthedError whenever there is no token,
\* or the flag is not set, or the expiry has passed, whatever
\* raise_expiring_soon is; and in that state auth_header and every request
\* raise it too, before anything is sent.
C8_NotAuthedBlocks ==
    [][ (last'.op \in CheckOps /\ NotAuthed(api, now)) =>
            /\ last'.result = "CulliganNotAuthedError"
            /\ last'.out = None
            /\ ~last'.sent ]_vars

C8_Witness ==
    /\ last.op = "self_request"
    /\ last.result = "CulliganNotAuthedError"
    /\ ~last.sent
    /\ api._culligan_access_token # None
    /\ api._culligan_expiration # None
    /\ api._culligan_expiration[1] = now - 1

Observed(a, t) == check_auth(a, TRUE, t).result

Rank(a, t) ==
    CASE Observed(a, t) = "ok"                        -> 0
      [] Observed(a, t) = "CulliganAuthExpiringError" -> 1
      [] Observed(a, t) = "CulliganNotAuthedError"    -> 2

\* the operations that are no sign-in, refresh or sign-out
PassiveOps == {"tick", "get_ayla_api"} \cup CheckOps

\* without a sign-in, refresh or sign-out the observed status never moves back
StatusMovesForward ==
    last'.op \in PassiveOps => Rank(api', now') >= Rank(api, now)

\* C10 as stated: the observed status only moves forward, being
\* Authenticated before expiry - 600, ExpiringSoon from expiry - 600 and
\* Expired from the instant now = expiry.
C10_ExpiredFromExpiry ==
    [][ /\ StatusMovesForward
        /\ HasSession(api) =>
              LET expiry == api._culligan_expiration[1]
              IN  /\ Observed(api, now) = "ok" <=> now < expiry - 600
                  /\ Observed(api, now) = "CulliganAuthExpiringError"
                        <=> (expiry - 600 <= now /\ now < expiry)
                  /\ Observed(api, now) = "CulliganNotAuthedError" <=> now >= expiry ]_vars

\* C10 amended: the observed status only moves forward, being Authenticated
\* up to and including expiry - 600, ExpiringSoon after expiry - 600 up to
\* and including the instant now = expiry, and Expired once now > expiry.
C10_StatusMovesForward ==
    [][ /\ StatusMovesForward
        /\ HasSession(api) =>
              LET expiry == api._culligan_expiration[1]
              IN  /\ Observed(api, now) = "ok" <=> now <= expiry - 600
                  /\ Observed(api, now) = "CulliganAuthExpiringError"
                        <=> (expiry - 600 < now /\ now <= expiry)
                  /\ Observed(api, now) = "CulliganNotAuthedError" <=> now > expiry ]_vars

C10_Witness ==
    /\ last.op = "tick"
    /\ HasSession(api)
    /\ now = api._culligan_expiration[1]
    /\ Observed(api, now) = "CulliganAuthExpiringError"

\* the last operation was a sign-in or refresh answered with status 200 and
\* a body without the "data" envelope
NoDataEnvelope ==
    /\ last.op \in AuthOps
    /\ last.resp.status = 200
    /\ last.resp.body = "no_data"

\* C11: a sign-in or refresh whose response has status 200 but no "data"
\* envelope fails with CulliganAuthError and with no other error kind.
C11_NoDataIsAuthError == NoDataEnvelope => last.result = "CulliganAuthError"

(* ------------------- a mutator running in a second thread --------------- *)
(* The object has no lock.  A sign_in, refresh_auth or sign_out called     *)
(* from a second thread runs _set_credentials / _clear_auth one group of   *)
(* assignments at a time, and the first thread's check_auth, auth_header   *)
(* and get_ayla_api read the object between any two of them.  `origin`     *)
(* numbers the calls and remembers which call wrote the access token, the  *)
(* expiry and the flag; 0 is no call (never written, or cleared).          *)

\* sign-in / refresh / sign-out calls the second thread makes
MaxCalls == 2

\* the second thread's call has reached line `pc`; nothing is returned yet
Running(pc) ==
    /\ frame' = [frame EXCEPT !.pc = pc]
    /\ last' = Outcome(frame.op, "pending", frame.resp, FALSE, None, FALSE)

\* the second thread's call ends with `result`
Returned(result) ==
    /\ frame' = [frame EXCEPT !.pc = "done"]
    /\ last' = Outcome(frame.op, result, frame.resp, FALSE, None, FALSE)

\* the answers the second thread's calls get: rejections and complete
\* bodies, so that every assignment of _set_credentials is reached
ThreadResponses == {r \in Responses : r.body \in {"error", "data"}}

\* sign_in / refresh_auth in the second thread: the request is answered and
\* _set_credentials is entered
thread_auth_call(op) ==
    /\ frame.pc = "done"
    /\ frame.id < MaxCalls
    /\ \E resp \in ThreadResponses :
        /\ frame' = [op |-> op, pc |-> "status", resp |-> resp, id |-> frame.id + 1]
        /\ last' = Outcome(op, "pending", resp, FALSE, None, TRUE)
    /\ UNCHANGED <<api, now, inflight, origin>>

thread_sign_in      == thread_auth_call("sign_in")
thread_refresh_auth == thread_auth_call("refresh_auth")

\* _set_credentials lines 107-114: the status and envelope tests
set_credentials_status ==
    /\ frame.pc = "status"
    /\ IF frame.resp.status \in ErrorStatuses
       THEN Returned(raise_for_rejected(api, frame.resp).result)
       ELSE IF ~HasData(frame.resp)
       THEN Returned("TypeError")
       ELSE Running("tokens")
    /\ UNCHANGED <<api, now, inflight, origin>>

\* _set_credentials lines 116-118
set_credentials_tokens ==
    /\ frame.pc = "tokens"
    /\ api' = set_primary_tokens(api, frame.resp)
    /\ origin' = [origin EXCEPT !.token = frame.id]
    /\ Running("expiration")
    /\ UNCHANGED <<now, inflight>>

\* _set_credentials line 119
set_credentials_expiration ==
    /\ frame.pc = "expiration"
    /\ IF frame.resp.body = "data_no_expires"
       THEN /\ Returned("KeyError")
            /\ UNCHANGED <<api, origin>>
       ELSE /\ api' = set_primary_expiration(api, frame.resp, now)
            /\ origin' = [origin EXCEPT !.expiry = frame.id]
            /\ Running("linked")
    /\ UNCHANGED <<now, inflight>>

\* _set_credentials lines 120-123
set_credentials_linked ==
    /\ frame.pc = "linked"
    /\ IF frame.resp.body = "data_no_linked"
       THEN /\ Returned("KeyError")
            /\ UNCHANGED api
       ELSE /\ api' = set_linked_account(api, frame.resp, now)
            /\ Running("authed")
    /\ UNCHANGED <<now, inflight, origin>>

\* _set_credentials lines 125-128
set_credentials_authed ==
    /\ frame.pc = "authed"
    /\ api' = set_is_authed(api, frame.resp.status)
    /\ origin' = [origin EXCEPT !.authed = frame.id]
    /\ Returned("ok")
    /\ UNCHANGED <<now, inflight>>

\* sign_out in the second thread: _clear_auth is entered
thread_sign_out ==
    /\ frame.pc = "done"
    /\ frame.id < MaxCalls
    /\ frame' = [op |-> "sign_out", pc |-> "clear_flag", resp |-> NoResp,
                 id |-> frame.id + 1]
    /\ last' = Outcome("sign_out", "pending", NoResp, FALSE, None, FALSE)
    /\ UNCHANGED <<api, now, inflight, origin>>

\* _clear_auth line 169
clear_auth_flag ==
    /\ frame.pc = "clear_flag"
    /\ api' = [api EXCEPT !._is_authed = FALSE]
    /\ origin' = [origin EXCEPT !.authed = 0]
    /\ Running("clear_tokens")
    /\ UNCHANGED <<now, inflight>>

\* _clear_auth lines 170-171
clear_auth_tokens ==
    /\ frame.pc = "clear_tokens"
    /\ api' = [api EXCEPT !._culligan_access_token  = None,
                          !._culligan_refresh_token = None]
    /\ origin' = [origin EXCEPT !.token = 0]
    /\ Running("clear_expiration")
    /\ UNCHANGED <<now, inflight>>

\* _clear_auth line 172
clear_auth_expiration ==
    /\ frame.pc = "clear_expiration"
    /\ api' = [api EXCEPT !._culligan_expiration = None]
    /\ origin' = [origin EXCEPT !.expiry = 0]
    /\ Running("clear_linked")
    /\ UNCHANGED <<now, inflight>>

\* _clear_auth lines 173-176
clear_auth_linked ==
    /\ frame.pc = "clear_linked"
    /\ api' = [api EXCEPT !._ayla_access_token  = None,
                          !._ayla_refresh_token = None,
                          !._ayla_expiration    = None]
    /\ Returned("ok")
    /\ UNCHANGED <<now, inflight, origin>>

\* check_auth resets _is_authed when it raises CulliganNotAuthedError
\* (line 219): the flag then comes from no response
reader_origin(a, a2) ==
    IF a2._is_authed = a._is_authed THEN origin ELSE [origin EXCEPT !.authed = 0]

\* the first thread reads the object while the second thread's call is
\* anywhere
thread_check_auth   == CheckAuth /\ origin' = reader_origin(api, api') /\ UNCHANGED frame
thread_auth_header  == AuthHeader /\ origin' = reader_origin(api, api') /\ UNCHANGED frame
thread_get_ayla_api == get_ayla_api /\ UNCHANGED <<frame, origin>>

ThreadNext ==
    \/ Tick                         /\ UNCHANGED <<threadvars, devicevars>>
    \/ thread_sign_in               /\ UNCHANGED devicevars
    \/ thread_refresh_auth          /\ UNCHANGED devicevars
    \/ set_credentials_status       /\ UNCHANGED devicevars
    \/ set_credentials_tokens       /\ UNCHANGED devicevars
    \/ set_credentials_expiration   /\ UNCHANGED devicevars
    \/ set_credentials_linked       /\ UNCHANGED devicevars
    \/ set_credentials_authed       /\ UNCHANGED devicevars
    \/ thread_sign_out              /\ UNCHANGED devicevars
    \/ clear_auth_flag              /\ UNCHANGED devicevars
    \/ clear_auth_tokens            /\ UNCHANGED devicevars
    \/ clear_auth_expiration        /\ UNCHANGED devicevars
    \/ clear_auth_linked            /\ UNCHANGED devicevars
    \/ thread_check_auth            /\ UNCHANGED devicevars
    \/ thread_auth_header           /\ UNCHANGED devicevars
    \/ thread_get_ayla_api          /\ UNCHANGED devicevars

ThreadSpec == Init /\ [][ThreadNext]_vars

\* the calls that read the Credential Store
ReaderOps == {"check_auth", "auth_header", "get_ayla_api"}

\* the token, the expiry and the flag that were written by a sign-in or
\* refresh were all written by the same one
OneResponse ==
    \A f, g \in {"token", "expiry", "authed"} :
        (origin[f] # 0 /\ origin[g] # 0) => origin[f] = origin[g]

\* C12: whenever check_auth, auth_header or get_ayla_api reads the object
\* while a sign-in, refresh or sign-out runs in another thread, the access
\* token, its expiry and the authenticated flag it finds come from one and
\* the same sign-in / refresh response.
C12_ReaderSeesOneResponse == last.op \in ReaderOps => OneResponse

(* --------------------------- registry and devices ----------------------- *)
(* (src/src/culligan/culliganiot_device.py and the read-style calls of     *)
(* CulliganApi.)  A JSON body is [kind |-> "data", data |-> d] for          *)
(* {"data": d} and [kind |-> "error"] for {"error": ...}, which has no      *)
(* "data" key.  A dict is a function from its keys.  A device object is a  *)
(* record of its fields plus `snapshot`, which is no field of the object:  *)
(* it remembers the datapoints of the last response update() has applied.  *)

\* entries in one registry response
MaxRegistry == 2
\* device objects get_devices constructs in one run
MaxDevices == 2

SerialNumbers == {"A", "B"}
PropertyNames == {"salt", "flow"}
EmptyDict     == [k \in {} |-> 0]

\* registry entries: a softener and a product with another name
RegistryEntries ==
    { [serialNumber |-> "A", name |-> "Smart HE"],
      [serialNumber |-> "B", name |-> "Smart HE Municipal"] }

\* data.devices of a registry response
Registries ==
    UNION { [1..n -> RegistryEntries] : n \in 0..MaxRegistry }

\* data.datapoints of a device-data response
Datapoints == { ("salt" :> 1) @@ ("flow" :> 1), ("salt" :> 2) }

ErrorBody     == [kind |-> "error"]
DataBody(d)   == [kind |-> "data", data |-> d]
NoHttp        == [status |-> 0, json |-> ErrorBody]

\* what the server may answer to an authenticated call whose valid answer
\* carries one of Data: 200 with the data, or a 401 / 500 with an error body
HttpResponses(Data) ==
    { [status |-> 200, json |-> DataBody(d)] : d \in Data }
    \cup { [status |-> s, json |-> ErrorBody] : s \in {401, 500} }

RegistryResponses   == HttpResponses({ [devices |-> r] : r \in Registries })
DeviceDataResponses == HttpResponses({ [datapoints |-> p] : p \in Datapoints })
ProfileResponses    == HttpResponses({ "profile" })
MetadataResponses   == HttpResponses({ "CWS-onboarding-survey" })

\* CulliganIoTDevice.__init__
CulliganIoTDevice(device_dct) ==
    [ class                 |-> "CulliganIoTDevice",
      properties            |-> EmptyDict,
      _commands             |-> <<>>,
      _name                 |-> device_dct.name,
      _device_serial_number |-> device_dct.serialNumber,
      snapshot              |-> None ]

\* CulliganIoTSoftener.__init__ (the registry entry's model, generation,
\* swVersion, region and status, which no operation here reads, are left out)
CulliganIoTSoftener(device_dct) ==
    [ CulliganIoTDevice(device_dct) EXCEPT
        !.class     = "CulliganIoTSoftener",
        !._commands = <<"telemetry.get", "awayMode.set", "bypass.timed.on",
                        "bypass.permanent.on", "bypass.off">> ]

\* x in a list
In(x, list) == \E i \in 1..Len(list) : list[i] = x

\* (variant: every serial of the response is appended)
track_serials_appends_all(serials, device_list) ==
    serials \o [i \in 1..Len(device_list) |-> device_list[i].serialNumber]

\* get_device_registry lines 315-317: the loop that tracks serial numbers
RECURSIVE track_serials(_, _)
track_serials(serials, device_list) ==
    IF device_list = <<>>
    THEN serials
    ELSE LET device == Head(device_list)
         IN  track_serials(IF In(device.serialNumber, serials)
                           THEN serials
                           ELSE Append(serials, device.serialNumber),
                           Tail(device_list))

\* (variant: every entry whose name starts with "Smart HE" is a softener)
new_device_by_prefix(d) ==
    IF d.name \in {"Smart HE", "Smart HE Municipal"}
    THEN CulliganIoTSoftener(d)
    ELSE CulliganIoTDevice(d)

\* get_devices lines 341-345: the class chosen for one registry entry
new_device(d) ==
    IF d.name \in {"Smart HE"}
    THEN CulliganIoTSoftener(d)
    ELSE CulliganIoTDevice(d)

\* (variant: the old properties are kept and the new ones merged in)
_do_update_merges(dev, full_update, properties) ==
    IF properties.kind # "data"
    THEN [device |-> dev, result |-> "KeyError", out |-> None]
    ELSE LET datapoints == properties.data.datapoints
         IN  [device |-> [dev EXCEPT !.properties =
                             [k \in DOMAIN dev.properties \cup DOMAIN datapoints |->
                                 IF k \in DOMAIN datapoints THEN datapoints[k]
                                 ELSE dev.properties[k]]],
              result |-> "ok", out |-> TRUE]

\* CulliganIoTDevice._do_update: the wipe of line 120 comes before the
\* subscripts of line 123, which raise KeyError on a body without "data"
_do_update(dev, full_update, properties) ==
    LET wiped == IF full_update THEN [dev EXCEPT !.properties = EmptyDict] ELSE dev
    IN  IF properties.kind # "data"
        THEN [device |-> wiped, result |-> "KeyError", out |-> None]
        ELSE LET datapoints == properties.data.datapoints
             IN  [device |-> [wiped EXCEPT !.properties =
                                 [k \in DOMAIN wiped.properties \cup DOMAIN datapoints |->
                                     IF k \in DOMAIN datapoints THEN datapoints[k]
                                     ELSE wiped.properties[k]]],
                  result |-> "ok", out |-> TRUE]

\* (variant: a missing property reads as 0)
get_property_value_defaults(dev, property_name) ==
    IF property_name \in DOMAIN dev.properties
    THEN [result |-> "ok", out |-> dev.properties[property_name]]
    ELSE [result |-> "ok", out |-> 0]

\* CulliganIoTDevice.get_property_value
get_property_value(dev, property_name) ==
    IF property_name \in DOMAIN dev.properties
    THEN [result |-> "ok", out |-> dev.properties[property_name]]
    ELSE [result |-> "KeyError", out |-> None]

(* ------------------------- device-side operations ----------------------- *)

\* what a device-side call did: as Outcome, with the call's argument, the
\* HTTP response it got (NoHttp when no request went out) and, for update,
\* the property mapping the device had before, for the registry calls the
\* serials tracked before
DeviceOutcome(op, result, resp, arg, out, before) ==
    [op |-> op, result |-> result, resp |-> resp, arg |-> arg, out |-> out,
     before |-> before, sent |-> resp # NoHttp]

\* the login answer of the device-side specifications: accepted, with a
\* token that stays clear of the expiring-soon window
ValidLogin ==
    [status |-> 200, body |-> "data", gen |-> 1, expiresIn |-> 900,
     aylaExpiresIn |-> 3600]

\* sign_in answered with ValidLogin
DeviceSignIn == sign_in /\ last'.resp = ValidLogin

\* lines 272-276, 288-293, 363-368 and their async_ counterparts: the body
\* is returned unless the status is 401; get_metadata_user also subscripts
\* response["data"]
read_result(op, resp) ==
    IF resp.status = 401
    THEN [result |-> "CulliganAuthError", out |-> None]
    ELSE IF op \in {"get_metadata_user", "async_get_metadata_user"}
            /\ resp.json.kind # "data"
    THEN [result |-> "KeyError", out |-> None]
    ELSE [result |-> "ok", out |-> resp.json]

\* get_user_profile, get_metadata_user, get_device_data and their async_
\* counterparts: self_request / async_request, then read_result
read_call(op, Args, Resps) ==
    LET h == _get_headers(api, now)
    IN  /\ api' = h.api
        /\ \E arg \in Args :
            IF h.result # "ok"
            THEN last' = DeviceOutcome(op, h.result, NoHttp, arg, None, None)
            ELSE \E resp \in Resps :
                    LET r == read_result(op, resp)
                    IN  last' = DeviceOutcome(op, r.result, resp, arg, r.out, None)
        /\ UNCHANGED <<now, inflight, culligan_iot_serials, devices>>

get_user_profile        == read_call("get_user_profile", {None}, ProfileResponses)
async_get_user_profile  == read_call("async_get_user_profile", {None}, ProfileResponses)
get_metadata_user       == read_call("get_metadata_user", {None}, MetadataResponses)
async_get_metadata_user == read_call("async_get_metadata_user", {None}, MetadataResponses)
get_device_data         == read_call("get_device_data", SerialNumbers, DeviceDataResponses)
async_get_device_data   == read_call("async_get_device_data", SerialNumbers, DeviceDataResponses)

\* get_device_registry / async_get_device_registry after the request
get_device_registry_result(serials, resp) ==
    IF resp.status = 401
    THEN [result |-> "CulliganAuthError", out |-> None, serials |-> serials]
    ELSE IF resp.json.kind # "data"
    THEN [result |-> "KeyError", out |-> None, serials |-> serials]
    ELSE [result |-> "ok", out |-> resp.json,
          serials |-> track_serials(serials, resp.json.data.devices)]

\* get_devices / async_get_devices after the request: the objects are
\* appended to `devices` and the list returned refers to them by position
get_devices_result(serials, devs, resp) ==
    LET reg == get_device_registry_result(serials, resp)
    IN  IF reg.result # "ok"
        THEN [result |-> reg.result, out |-> None, serials |-> reg.serials,
              devices |-> devs]
        ELSE LET list == reg.out.data.devices
             IN  [result |-> "ok",
                  out |-> [i \in 1..Len(list) |-> Len(devs) + i],
                  serials |-> reg.serials,
                  devices |-> devs \o [i \in 1..Len(list) |-> new_device(list[i])]]

registry_call(op) ==
    LET h == _get_headers(api, now)
    IN  /\ api' = h.api
        /\ IF h.result # "ok"
           THEN /\ last' = DeviceOutcome(op, h.result, NoHttp, None, None,
                                         culligan_iot_serials)
                /\ UNCHANGED culligan_iot_serials
           ELSE \E resp \in RegistryResponses :
                    LET r == get_device_registry_result(culligan_iot_serials, resp)
                    IN  /\ culligan_iot_serials' = r.serials
                        /\ last' = DeviceOutcome(op, r.result, resp, None, r.out,
                                                 culligan_iot_serials)
        /\ UNCHANGED <<now, inflight, devices>>

get_device_registry       == registry_call("get_device_registry")
async_get_device_registry == registry_call("async_get_device_registry")

devices_call(op) ==
    LET h == _get_headers(api, now)
    IN  /\ api' = h.api
        /\ IF h.result # "ok"
           THEN /\ last' = DeviceOutcome(op, h.result, NoHttp, None, None,
                                         culligan_iot_serials)
                /\ UNCHANGED <<culligan_iot_serials, devices>>
           ELSE \E resp \in RegistryResponses :
                    LET r == get_devices_result(culligan_iot_serials, devices, resp)
                    IN  /\ Len(r.devices) <= MaxDevices
                        /\ culligan_iot_serials' = r.serials
                        /\ devices' = r.devices
                        /\ last' = DeviceOutcome(op, r.result, resp, None, r.out,
                                                 culligan_iot_serials)
        /\ UNCHANGED <<now, inflight>>

get_devices       == devices_call("get_devices")
async_get_devices == devices_call("async_get_devices")

\* update / async_update of the device at position i: self_request /
\* async_request, resp.json(), _do_update(True, properties)
update_call(op) ==
    \E i \in 1..Len(devices) :
        LET h == _get_headers(api, now)
        IN  /\ api' = h.api
            /\ IF h.result # "ok"
               THEN /\ last' = DeviceOutcome(op, h.result, NoHttp, i, None,
                                             devices[i].properties)
                    /\ UNCHANGED devices
               ELSE \E resp \in DeviceDataResponses :
                        LET u == _do_update(devices[i], TRUE, resp.json)
                        IN  /\ devices' =
                                [devices EXCEPT ![i] =
                                    [u.device EXCEPT !.snapshot =
                                        IF u.result = "ok"
                                        THEN Some(resp.json.data.datapoints)
                                        ELSE @]]
                            /\ last' = DeviceOutcome(op, u.result, resp, i, u.out,
                                                     devices[i].properties)
            /\ UNCHANGED <<now, inflight, culligan_iot_serials>>

update       == update_call("update")
async_update == update_call("async_update")

\* a caller's get_property_value(property_name) on the device at position i
GetPropertyValue ==
    \E i \in 1..Len(devices), property_name \in PropertyNames :
        LET g == get_property_value(devices[i], property_name)
        IN  /\ last' = DeviceOutcome("get_property_value", g.result, NoHttp,
                                     [device |-> i, name |-> property_name],
                                     g.out, None)
            /\ UNCHANGED <<api, now, inflight, culligan_iot_serials, devices>>

\* the authenticated read-style calls of CulliganApi, no device constructed
ReadNext ==
    \/ DeviceSignIn                 /\ UNCHANGED <<threadvars, devicevars>>
    \/ get_user_profile             /\ UNCHANGED threadvars
    \/ async_get_user_profile       /\ UNCHANGED threadvars
    \/ get_metadata_user            /\ UNCHANGED threadvars
    \/ async_get_metadata_user      /\ UNCHANGED threadvars
    \/ get_device_data              /\ UNCHANGED threadvars
    \/ async_get_device_data        /\ UNCHANGED threadvars
    \/ get_device_registry          /\ UNCHANGED threadvars
    \/ async_get_device_registry    /\ UNCHANGED threadvars

ReadSpec == Init /\ [][ReadNext]_vars

\* the devices get_devices constructs and the calls on them
DeviceNext ==
    \/ DeviceSignIn                 /\ UNCHANGED <<threadvars, devicevars>>
    \/ get_devices                  /\ UNCHANGED threadvars
    \/ async_get_devices            /\ UNCHANGED threadvars
    \/ update                       /\ UNCHANGED threadvars
    \/ async_update                 /\ UNCHANGED threadvars
    \/ GetPropertyValue             /\ UNCHANGED threadvars

DeviceSpec == Init /\ [][DeviceNext]_vars

(* --------------------------- device-side properties --------------------- *)

RegistryOps   == {"get_device_registry", "async_get_device_registry"}
GetDevicesOps == {"get_devices", "async_get_devices"}
UpdateOps     == {"update", "async_update"}
\* the authenticated read-style calls
ReadOps ==
    {"get_user_profile", "async_get_user_profile", "get_metadata_user",
     "async_get_metadata_user", "get_device_data", "async_get_device_data"}
    \cup RegistryOps \cup GetDevicesOps \cup UpdateOps

\* C13: a read-style call (profile, metadata, registry, device data, and a
\* device's update / async_update) that is answered with status 401 raises
\* CulliganAuthError, and no other kind of error.
C13_Status401IsAuthError ==
    (last.op \in ReadOps /\ last.resp.status = 401) =>
        last.result = "CulliganAuthError"

\* the last operation was an update / async_update that returned
UpdateSucceeded == last.op \in UpdateOps /\ last.result = "ok"

\* C14: after a successful update / async_update the device's property
\* mapping is exactly data.datapoints of that response, so a key the device
\* had before and the response lacks is gone, and the call returned True.
C14_UpdateReplaces ==
    UpdateSucceeded =>
        LET datapoints == last.resp.json.data.datapoints
            properties == devices[last.arg].properties
        IN  /\ properties = datapoints
            /\ \A k \in DOMAIN last.before \ DOMAIN datapoints :
                    k \notin DOMAIN properties
            /\ last.out = TRUE

\* a second snapshot without "flow" has replaced one that had it
C14_Witness ==
    /\ UpdateSucceeded
    /\ "flow" \in DOMAIN last.before
    /\ devices[last.arg].properties = ("salt" :> 2)

\* C15: get_property_value(name) raises KeyError for every name on a device
\* that was never refreshed and for every name the latest applied snapshot
\* lacks; it never makes up a value: what it returns is the latest
\* snapshot's value for that name, and right after a successful update whose
\* snapshot has the name it does return that value.
C15_GetProperty ==
    [][ last'.op = "get_property_value" =>
            LET dev  == devices'[last'.arg.device]
                name == last'.arg.name
            IN  /\ dev.snapshot = None => last'.result = "KeyError"
                /\ (dev.snapshot # None /\ name \notin DOMAIN dev.snapshot[1]) =>
                        last'.result = "KeyError"
                /\ last'.result \in {"ok", "KeyError"}
                /\ last'.result = "ok" =>
                        /\ dev.snapshot # None
                        /\ name \in DOMAIN dev.snapshot[1]
                        /\ last'.out = dev.snapshot[1][name]
                /\ (UpdateSucceeded /\ last.arg = last'.arg.device
                    /\ name \in DOMAIN last.resp.json.data.datapoints) =>
                        /\ last'.result = "ok"
                        /\ last'.out = last.resp.json.data.datapoints[name]
      ]_vars

\* "flow" is asked of a device whose latest snapshot has "salt" only
C15_Witness ==
    /\ last.op = "get_property_value"
    /\ last.arg.name = "flow"
    /\ devices[last.arg.device].snapshot = Some("salt" :> 2)
    /\ last.result = "KeyError"

\* the serial numbers of a registry response, in the order of its entries
SerialsOf(resp) ==
    [i \in 1..Len(resp.json.data.devices) |-> resp.json.data.devices[i].serialNumber]

\* the first position of x in s
FirstIndex(x, s) == CHOOSE i \in 1..Len(s) : s[i] = x /\ \A j \in 1..(i - 1) : s[j] # x

\* t lists every element of s exactly once, in the order of first appearance
IsFirstAppearanceOrder(t, s) ==
    /\ \A i, j \in 1..Len(t) : t[i] = t[j] => i = j
    /\ {t[i] : i \in 1..Len(t)} = {s[i] : i \in 1..Len(s)}
    /\ \A i, j \in 1..Len(t) : i < j => FirstIndex(t[i], s) < FirstIndex(t[j], s)

\* C16: a successful registry fetch leaves culligan_iot_serials holding,
\* exactly once each and in order of first appearance, the serials tracked
\* before followed by those of the response; no other call changes the
\* list.  So the list always is the serials of all successful registry
\* responses so far, each once, in order of first appearance.
C16_TrackedSerials ==
    [][ IF last'.op \in RegistryOps \cup GetDevicesOps /\ last'.result = "ok"
        THEN IsFirstAppearanceOrder(culligan_iot_serials',
                                    culligan_iot_serials \o SerialsOf(last'.resp))
        ELSE culligan_iot_serials' = culligan_iot_serials
      ]_vars

\* the registry [A, B] is fetched when [A] is tracked already
C16_Witness ==
    /\ last.op \in RegistryOps
    /\ last.result = "ok"
    /\ last.before = <<"A">>
    /\ SerialsOf(last.resp) = <<"A", "B">>
    /\ culligan_iot_serials = <<"A", "B">>

\* C17: a successful get_devices / async_get_devices returns one device per
\* registry entry, in registry order; the device for an entry is a
\* CulliganIoTSoftener exactly when the entry's name is "Smart HE" and a
\* CulliganIoTDevice otherwise, it is an object that did not exist before
\* and its property mapping is empty; every device constructed earlier is
\* as it was.
C17_GetDevices ==
    [][ (last'.op \in GetDevicesOps /\ last'.result = "ok") =>
            LET list == last'.resp.json.data.devices
                n    == Len(devices)
            IN  /\ Len(last'.out) = Len(list)
                /\ Len(devices') = n + Len(list)
                /\ \A i \in 1..Len(list) :
                     LET dev == devices'[last'.out[i]]
                     IN  /\ last'.out[i] \notin 1..n
                         /\ \A j \in 1..Len(list) : last'.out[j] = last'.out[i] => j = i
                         /\ dev.class = IF list[i].name = "Smart HE"
                                        THEN "CulliganIoTSoftener"
                                        ELSE "CulliganIoTDevice"
                         /\ dev._name = list[i].name
                         /\ dev._device_serial_number = list[i].serialNumber
                         /\ DOMAIN dev.properties = {}
                /\ \A k \in 1..n : devices'[k] = devices[k]
      ]_vars

\* a second fetch has returned a generic device while the softener of the
\* first fetch keeps the properties an update gave it
C17_Witness ==
    /\ last.op \in GetDevicesOps
    /\ last.result = "ok"
    /\ last.out = <<2>>
    /\ devices[1].class = "CulliganIoTSoftener"
    /\ devices[1].properties = ("salt" :> 2)
    /\ devices[2].class = "CulliganIoTDevice"
    /\ devices[2]._name = "Smart HE Municipal"
    /\ DOMAIN devices[2].properties = {}

(* ------------------------------ device commands ------------------------- *)
(* A payload dict is a record of its keys.  An omitted duration argument   *)
(* is None, a given one Some(d).                                           *)

\* the commands callers ask for: the softener's five and two it lacks
Commands ==
    {"telemetry.get", "awayMode.set", "bypass.timed.on", "bypass.permanent.on",
     "bypass.off", "bypass.timed.off", "not.a.command"}

\* the duration argument: omitted, or 45
DurationArgs == {None, Some(45)}

\* Python's int() of a bool
int(active) == IF active THEN 1 ELSE 0

\* (variant: the whitelist is not consulted)
set_command_payload_any_command(dev, command, active, duration_arg) ==
    LET duration == IF duration_arg = None THEN 60 ELSE duration_arg[1]
        head     == [command |-> command, serialNumber |-> dev._device_serial_number,
                     protocolVersion |-> 1]
    IN  IF command = "telemetry.get"
        THEN head
        ELSE IF command = "bypass.timed.on"
        THEN head @@ [params |-> [active |-> int(active), duration |-> duration]]
        ELSE head @@ [params |-> [active |-> int(active)]]

\* (variant: every command with params carries the duration)
set_command_payload_always_duration(dev, command, active, duration_arg) ==
    LET duration == IF duration_arg = None THEN 60 ELSE duration_arg[1]
        head     == [command |-> command, serialNumber |-> dev._device_serial_number,
                     protocolVersion |-> 1]
    IN  IF ~In(command, dev._commands)
        THEN None
        ELSE IF command = "telemetry.get"
        THEN head
        ELSE head @@ [params |-> [active |-> int(active), duration |-> duration]]

\* CulliganIoTDevice.set_command_payload(command, active, duration=60);
\* a command that is not in _commands falls off the end: None
set_command_payload(dev, command, active, duration_arg) ==
    LET duration == IF duration_arg = None THEN 60 ELSE duration_arg[1]
        head     == [command |-> command, serialNumber |-> dev._device_serial_number,
                     protocolVersion |-> 1]
    IN  IF ~In(command, dev._commands)
        THEN None
        ELSE IF command = "telemetry.get"
        THEN head
        ELSE IF command = "bypass.timed.on"
        THEN head @@ [params |-> [active |-> int(active), duration |-> duration]]
        ELSE head @@ [params |-> [active |-> int(active)]]

\* the softener's named operations on the synchronous surface
SyncCommandOps ==
    {"get_telemetry", "start_vacation_mode", "stop_vacation_mode",
     "start_bypass_mode", "start_bypass_timed_mode", "stop_bypass_mode"}

\* the same on the asynchronous surface
AsyncCommandOps ==
    {"async_get_telemetry", "async_start_vacation_mode", "async_stop_vacation_mode",
     "async_start_bypass_mode", "async_start_bypass_timed_mode",
     "async_stop_bypass_mode"}

\* the operations that take a duration (default 60)
TimedOps == {"start_bypass_timed_mode", "async_start_bypass_timed_mode"}

\* the arguments each named operation gives set_command_payload
\* (culliganiot_device.py lines 166, 175, 184, 193, 202, 211, 220, 229, 238,
\* 247, 256, 265)
named_command(op, duration_arg) ==
    LET duration == IF duration_arg = None THEN Some(60) ELSE duration_arg
    IN  CASE op \in {"get_telemetry", "async_get_telemetry"} ->
                [command |-> "telemetry.get", active |-> TRUE, duration |-> None]
          [] op \in {"start_vacation_mode", "async_start_vacation_mode"} ->
                [command |-> "awayMode.set", active |-> TRUE, duration |-> None]
          [] op \in {"stop_vacation_mode", "async_stop_vacation_mode"} ->
                [command |-> "awayMode.set", active |-> FALSE, duration |-> None]
          [] op \in {"start_bypass_mode", "async_start_bypass_mode"} ->
                [command |-> "bypass.permanent.on", active |-> TRUE, duration |-> None]
          [] op = "start_bypass_timed_mode" ->
                [command |-> "bypass.timed.on", active |-> TRUE, duration |-> duration]
          [] op = "async_start_bypass_timed_mode" ->
                [command |-> "bypass.permanent.on", active |-> TRUE, duration |-> duration]
          [] op \in {"stop_bypass_mode", "async_stop_bypass_mode"} ->
                [command |-> "bypass.off", active |-> TRUE, duration |-> None]

\* the payload a named operation hands to self_request / async_request
command_payload(dev, op, duration_arg) ==
    LET c == named_command(op, duration_arg)
    IN  set_command_payload(dev, c.command, c.active, c.duration)

\* answers of POST /device/command: {"success": true}, {"success": false},
\* a 200 whose body has no "success" key, or a rejection without one
CommandResponses ==
    { [status |-> 200, json |-> [kind |-> "success", success |-> b]] : b \in BOOLEAN }
    \cup { [status |-> 200, json |-> DataBody("accepted")] }
    \cup { [status |-> 401, json |-> ErrorBody] }

\* the end of every named operation: json["success"] == True
command_result(resp) ==
    IF resp.json.kind # "success"
    THEN [result |-> "KeyError", out |-> None]
    ELSE [result |-> "ok", out |-> (resp.json.success = TRUE)]

\* what a command-side call did: as DeviceOutcome, with the payload handed
\* to the request
CommandOutcome(op, result, resp, arg, out, payload) ==
    [op |-> op, result |-> result, resp |-> resp, arg |-> arg, out |-> out,
     payload |-> payload, sent |-> resp # NoHttp]

\* a device constructed from a registry entry, softener or generic, on a
\* session that is not signed in yet
CommandInit ==
    /\ api = CulliganApi
    /\ now = 0
    /\ inflight = {}
    /\ last = Outcome("__init__", "ok", NoResp, FALSE, None, FALSE)
    /\ frame = NoFrame
    /\ origin = NoOrigin
    /\ culligan_iot_serials = <<>>
    /\ devices \in { <<new_device(d)>> : d \in RegistryEntries }

\* a caller's set_command_payload(command, active[, duration])
SetCommandPayload ==
    \E command \in Commands, active \in BOOLEAN, duration_arg \in DurationArgs :
        /\ last' = CommandOutcome("set_command_payload", "ok", NoHttp,
                                  [command |-> command, active |-> active,
                                   duration |-> duration_arg],
                                  set_command_payload(devices[1], command, active,
                                                      duration_arg),
                                  None)
        /\ UNCHANGED <<api, now, inflight, culligan_iot_serials, devices>>

\* a named operation of the softener: the payload is built, self_request /
\* async_request posts it, json["success"] decides what is returned.  (On
\* the asynchronous surface the value awaited from async_request is taken
\* to be the response, as the code takes it.)
command_call(op, DurationChoices) ==
    /\ devices[1].class = "CulliganIoTSoftener"
    /\ \E duration_arg \in DurationChoices :
        LET payload == command_payload(devices[1], op, duration_arg)
            h       == _get_headers(api, now)
        IN  /\ api' = h.api
            /\ IF h.result # "ok"
               THEN last' = CommandOutcome(op, h.result, NoHttp, duration_arg,
                                           None, payload)
               ELSE \E resp \in CommandResponses :
                        LET r == command_result(resp)
                        IN  last' = CommandOutcome(op, r.result, resp, duration_arg,
                                                   r.out, payload)
    /\ UNCHANGED <<now, inflight, culligan_iot_serials, devices>>

get_telemetry                 == command_call("get_telemetry", {None})
async_get_telemetry           == command_call("async_get_telemetry", {None})
start_vacation_mode           == command_call("start_vacation_mode", {None})
async_start_vacation_mode     == command_call("async_start_vacation_mode", {None})
stop_vacation_mode            == command_call("stop_vacation_mode", {None})
async_stop_vacation_mode      == command_call("async_stop_vacation_mode", {None})
start_bypass_mode             == command_call("start_bypass_mode", {None})
async_start_bypass_mode       == command_call("async_start_bypass_mode", {None})
start_bypass_timed_mode       == command_call("start_bypass_timed_mode", DurationArgs)
async_start_bypass_timed_mode == command_call("async_start_bypass_timed_mode", DurationArgs)
stop_bypass_mode              == command_call("stop_bypass_mode", {None})
async_stop_bypass_mode        == command_call("async_stop_bypass_mode", {None})

CommandNext ==
    \/ DeviceSignIn                  /\ UNCHANGED <<threadvars, devicevars>>
    \/ SetCommandPayload             /\ UNCHANGED threadvars
    \/ get_telemetry                 /\ UNCHANGED threadvars
    \/ async_get_telemetry           /\ UNCHANGED threadvars
    \/ start_vacation_mode           /\ UNCHANGED threadvars
    \/ async_start_vacation_mode     /\ UNCHANGED threadvars
    \/ stop_vacation_mode            /\ UNCHANGED threadvars
    \/ async_stop_vacation_mode      /\ UNCHANGED threadvars
    \/ start_bypass_mode             /\ UNCHANGED threadvars
    \/ async_start_bypass_mode       /\ UNCHANGED threadvars
    \/ start_bypass_timed_mode       /\ UNCHANGED threadvars
    \/ async_start_bypass_timed_mode /\ UNCHANGED threadvars
    \/ stop_bypass_mode              /\ UNCHANGED threadvars
    \/ async_stop_bypass_mode        /\ UNCHANGED threadvars

CommandSpec == CommandInit /\ [][CommandNext]_vars

(* ------------------------------ command properties ---------------------- *)

\* the whitelist of each device class
Whitelist(class) ==
    IF class = "CulliganIoTSoftener"
    THEN {"telemetry.get", "awayMode.set", "bypass.timed.on",
          "bypass.permanent.on", "bypass.off"}
    ELSE {}

\* C18: set_command_payload returns None for every command outside the
\* device's whitelist and a payload for every command inside it; the
\* softener's whitelist is telemetry.get, awayMode.set, bypass.timed.on,
\* bypass.permanent.on, bypass.off and the generic device's is empty.
C18_WhitelistOnly ==
    last.op = "set_command_payload" =>
        (last.out = None <=> last.arg.command \notin Whitelist(devices[1].class))

\* the softener is asked for a command that is not on its list
C18_Witness ==
    /\ last.op = "set_command_payload"
    /\ devices[1].class = "CulliganIoTSoftener"
    /\ last.arg.command = "not.a.command"
    /\ last.out = None

\* C19: the payload set_command_payload builds for a whitelisted command
\* has the keys command, serialNumber (the device's) and protocolVersion
\* (1); it has no params key exactly for telemetry.get; otherwise
\* params.active is 1 for True and 0 for False, and params.duration is
\* there exactly for bypass.timed.on, holding the duration given, 60 when
\* none is given.
C19_PayloadShape ==
    (last.op = "set_command_payload" /\ last.out # None) =>
        LET payload == last.out
            a       == last.arg
        IN  /\ {"command", "serialNumber", "protocolVersion"} \subseteq DOMAIN payload
            /\ DOMAIN payload \subseteq
                    {"command", "serialNumber", "protocolVersion", "params"}
            /\ payload.command = a.command
            /\ payload.serialNumber = devices[1]._device_serial_number
            /\ payload.protocolVersion = 1
            /\ "params" \notin DOMAIN payload <=> a.command = "telemetry.get"
            /\ "params" \in DOMAIN payload =>
                /\ payload.params.active = (IF a.active THEN 1 ELSE 0)
                /\ "duration" \in DOMAIN payload.params <=> a.command = "bypass.timed.on"
                /\ DOMAIN payload.params \subseteq {"active", "duration"}
                /\ "duration" \in DOMAIN payload.params =>
                        payload.params.duration =
                            (IF a.duration = None THEN 60 ELSE a.duration[1])

\* set_command_payload("bypass.timed.on", True, 45) on a softener
C19_Witness ==
    /\ last.op = "set_command_payload"
    /\ last.arg = [command |-> "bypass.timed.on", active |-> TRUE, duration |-> Some(45)]
    /\ last.out # None
    /\ last.out.params = [active |-> 1, duration |-> 45]

\* C20: a named softener operation hands its request the same payload on
\* the asynchronous surface as on the synchronous one for the same
\* arguments, and start_bypass_timed_mode(d) / async_start_bypass_timed_mode(d)
\* both send command bypass.timed.on with params {active: 1, duration: d}.
C20_SurfacesAgree ==
    (last.op \in SyncCommandOps \cup AsyncCommandOps /\ last.sent) =>
        /\ \A sync \in SyncCommandOps :
              last.op \in {sync, "async_" \o sync} =>
                  last.payload = command_payload(devices[1], sync, last.arg)
        /\ last.op \in TimedOps =>
              /\ last.payload.command = "bypass.timed.on"
              /\ last.payload.params =
                    [active |-> 1,
                     duration |-> IF last.arg = None THEN 60 ELSE last.arg[1]]

\* C21: a named operation whose request went out and was answered with
\* status 200 returns normally, True when the body's success field is true
\* and False when it is false or absent; when the request is refused before
\* it goes out (not signed in, token expiring) the error is raised and
\* nothing is returned.
C21_DispatchResult ==
    last.op \in SyncCommandOps \cup AsyncCommandOps =>
        /\ (last.sent /\ last.resp.status = 200) =>
              /\ last.result = "ok"
              /\ last.out = (last.resp.json.kind = "success" /\ last.resp.json.success)
        /\ ~last.sent =>
              last.result \in {"CulliganNotAuthedError", "CulliganAuthExpiringError"}

\* no access token is stored and check_auth raises CulliganNotAuthedError
SignedOut(a, t) ==
    /\ a._culligan_access_token = None
    /\ check_auth(a, FALSE, t).result = "CulliganNotAuthedError"
    /\ check_auth(a, TRUE, t).result = "CulliganNotAuthedError"

\* C22: when sign_out returns the session is signed out (no access token,
\* check_auth raises CulliganNotAuthedError), and an async_sign_in or
\* async_refresh_auth that was awaiting its response while sign_out ran
\* leaves it signed out when that response arrives.
C22_SignOutIsFinal ==
    [][ /\ last'.op = "sign_out" => SignedOut(api', now')
        /\ (last.op = "sign_out" /\ last'.op \in AsyncAuthCalls
            /\ last'.result # "pending") => SignedOut(api', now')
      ]_vars

\* C23: a sign-in or refresh whose _set_credentials raises, for whatever
\* reason, leaves every Credential Store field as it was before the call.
C23_UpdateAllOrNothing ==
    [][ (last'.op \in AuthOps /\ last'.result \notin {"ok", "pending"}) =>
            CredentialStore(api') = CredentialStore(api)
      ]_vars

\* C24: an update / async_update that raises (the request refused for lack
\* of a session, or answered with a body without data.datapoints) leaves the
\* device's property mapping as it was before the call.
C24_FailedUpdateKeepsProperties ==
    (last.op \in UpdateOps /\ last.result # "ok") =>
        devices[last.arg].properties = last.before

\* the last operation was a sign-in or refresh answered with a complete
\* data envelope under a status that is neither 200 nor 401, 404, 422
DataWithoutSuccess(l) ==
    /\ l.op \in AuthOps
    /\ l.resp.body = "data"
    /\ l.resp.status \notin ErrorStatuses \cup {200}

\* C25: _is_authed turns true only in a sign-in or refresh whose response
\* has status 200; a response with a complete data envelope under another
\* status that is not 401, 404 or 422 stores its tokens and expiries but
\* leaves _is_authed false, so check_auth and auth_header raise
\* CulliganNotAuthedError afterwards.
C25_AuthedOnlyBy200 ==
    [][ /\ (api'._is_authed /\ ~api._is_authed) =>
              /\ last'.op \in AuthOps
              /\ last'.resp.status = 200
              /\ last'.result = "ok"
        /\ DataWithoutSuccess(last') =>
              /\ api'._culligan_access_token = accessToken(last'.resp)
              /\ api'._culligan_refresh_token = refreshToken(last'.resp)
              /\ api'._culligan_expiration = Some(now + last'.resp.expiresIn)
              /\ api'._ayla_access_token = ayla_access_token(last'.resp)
              /\ api'._ayla_expiration = Some(now + last'.resp.aylaExpiresIn)
              /\ ~api'._is_authed
              /\ check_auth(api', TRUE, now').result = "CulliganNotAuthedError"
              /\ check_auth(api', FALSE, now').result = "CulliganNotAuthedError"
              /\ auth_header(api', now').result = "CulliganNotAuthedError"
      ]_vars

\* a status-500 response with a data envelope has been stored
C25_Witness ==
    /\ DataWithoutSuccess(last)
    /\ last.resp.status = 500
    /\ api._culligan_access_token = accessToken(last.resp)
    /\ api._culligan_expiration # None
    /\ ~api._is_authed
    /\ auth_header(api, now).result = "CulliganNotAuthedError"

====
